---- MODULE Spec2Model ----
(***************************************************************************)
(* DM IMU serial frame decoder: models/dm_serial.py (DM_Serial, the        *)
(* "latest frame" reader used by main.py) and models/imu_recive.py         *)
(* (DM_Serial, the one-frame-at-a-time reader).                            *)
(*                                                                         *)
(* Bytes are integers 0..255, byte strings are sequences of them.  Offsets *)
(* into byte strings are 0-based, as in the Python source; Slice(b, i, j)  *)
(* is Python's b[i:j].                                                     *)
(***************************************************************************)
EXTENDS Integers, Sequences, FiniteSets, TLC

(***************************************************************************)
(* Bounds of the model.                                                    *)
(***************************************************************************)
\* chunks the device sends in one behaviour
MaxEmit == 3
\* calls on the DM_Serial object in one behaviour
MaxCalls == 2
\* in_waiting takes the values 0..MaxSplit, FRAME_LEN and "everything sent"
MaxSplit == 2
\* calls of destory() or close() allowed after the last of the MaxCalls calls
ExtraCloses == 1

(***************************************************************************)
(* Module constants of dm_serial.py.                                       *)
(***************************************************************************)
HDR == <<85, 170>>
TAIL == 10
FRAME_LEN == 19
VALID_RIDS == {1, 2, 3}
SKIP_HDR_IN_CRC == FALSE

\* Python's None where a sample is expected: the empty tuple
None == <<>>
\* no reason tag
NoWhy == "-"
\* self.ser = None
NoSer == "None"

(***************************************************************************)
(* Python byte-string primitives.                                          *)
(***************************************************************************)
Min(a, b) == IF a < b THEN a ELSE b

\* b[i:j] for 0 <= i, with j clamped to len(b)
Slice(b, i, j) == SubSeq(b, i + 1, Min(j, Len(b)))

\* b[i:]
SliceFrom(b, i) == SubSeq(b, i + 1, Len(b))

\* b[-1:]
LastByte(b) == SubSeq(b, Len(b), Len(b))

\* b[i] with a 0-based index
At(b, i) == b[i + 1]

\* whether the two bytes of HDR stand at offset i of b
HdrAt(b, i) == i + 2 <= Len(b) /\ b[i + 1] = HDR[1] /\ b[i + 2] = HDR[2]

\* b.find(HDR, start): the least offset >= start where HDR stands, or -1
Find(b, start) ==
  LET hits == {i \in start .. (Len(b) - 2) : HdrAt(b, i)}
  IN  IF hits = {} THEN -1 ELSE CHOOSE i \in hits : \A k \in hits : i <= k

(***************************************************************************)
(* dm_crc16 (models/dm_crc.py): table-driven CRC-16, initial accumulator   *)
(* 0xFFFF.  The 256 table entries are not among the sources at hand; the   *)
(* table taken here is the MSB-first one of the polynomial 0x1021.  The    *)
(* readers use dm_crc16 as a function of the bytes and nothing more.       *)
(***************************************************************************)
RECURSIVE XorBits(_, _, _)
XorBits(a, b, n) ==
  IF n = 0 THEN 0
  ELSE ((a + b) % 2) + 2 * XorBits(a \div 2, b \div 2, n - 1)

XorNibble == [a \in 0..15 |-> [b \in 0..15 |-> XorBits(a, b, 4)]]

Xor8(a, b) == 16 * XorNibble[a \div 16][b \div 16] + XorNibble[a % 16][b % 16]

Xor16(a, b) == 256 * Xor8(a \div 256, b \div 256) + Xor8(a % 256, b % 256)

RECURSIVE CrcShift(_, _)
CrcShift(c, n) ==
  IF n = 0 THEN c
  ELSE CrcShift(IF c >= 32768 THEN Xor16((2 * c) % 65536, 4129)
                ELSE (2 * c) % 65536, n - 1)

CRC16_TABLE == [i \in 0..255 |-> CrcShift(i * 256, 8)]

RECURSIVE CrcFold(_, _, _)
CrcFold(crc, data, k) ==
  IF k > Len(data) THEN crc
  ELSE CrcFold(Xor16((crc * 256) % 65536,
                     CRC16_TABLE[Xor8(crc \div 256, data[k])]),
               data, k + 1)

dm_crc16(data) == CrcFold(65535, data, 1)

(***************************************************************************)
(* Frame validation and decoding, as the loop body of _parse_all does it.  *)
(***************************************************************************)
\* struct.unpack('<f', b)[0]: the IEEE 754 value, held as its 32-bit pattern
unpack_f(b) == b[1] + 256 * b[2] + 65536 * b[3] + 16777216 * b[4]

\* crc_wire = frame[16] | (frame[17] << 8)
crc_wire(frame) == At(frame, 16) + 256 * At(frame, 17)

\* crc_calc: the primary coverage window
crc_calc(frame) ==
  IF SKIP_HDR_IN_CRC THEN dm_crc16(Slice(frame, 2, 16))
  ELSE dm_crc16(Slice(frame, 0, 16))

\* alt: the other coverage window
crc_alt(frame) ==
  IF ~SKIP_HDR_IN_CRC THEN dm_crc16(Slice(frame, 2, 16))
  ELSE dm_crc16(Slice(frame, 0, 16))

\* mutant: no fallback to the other coverage window
CrcAccepted_primary_only(frame) ==
  crc_calc(frame) = crc_wire(frame)

\* the checksum test of _parse_all: FALSE when the candidate is counted in cnt_crc
CrcAccepted(frame) ==
  \/ crc_calc(frame) = crc_wire(frame)
  \/ crc_alt(frame) = crc_wire(frame)

\* mutant: the record identifier is not checked
Verdict_any_rid(frame) ==
  IF At(frame, 18) # TAIL THEN "tail"
  ELSE IF ~CrcAccepted(frame) THEN "crc"
  ELSE "ok"

\* the verdict of one candidate in _parse_all, checks in the order of the code
Verdict(frame) ==
  IF At(frame, 18) # TAIL THEN "tail"
  ELSE IF At(frame, 3) \notin VALID_RIDS THEN "rid"
  ELSE IF ~CrcAccepted(frame) THEN "crc"
  ELSE "ok"

\* (rid, (f1, f2, f3))
Decode(frame) ==
  <<At(frame, 3), <<unpack_f(Slice(frame, 4, 8)),
                    unpack_f(Slice(frame, 8, 12)),
                    unpack_f(Slice(frame, 12, 16))>>>>

(***************************************************************************)
(* The device side: what may arrive on the serial line.  A well-formed     *)
(* frame is built as the firmware builds it; the two firmware variants     *)
(* differ in the window the checksum covers.                               *)
(***************************************************************************)
\* a frame whose checksum covers bytes [0,16) (incl = TRUE) or [2,16)
MkFrame(rid, payload, incl, tail) ==
  LET body == HDR \o <<0, rid>> \o payload
      c    == IF incl THEN dm_crc16(body) ELSE dm_crc16(SliceFrom(body, 2))
  IN  body \o <<c % 256, c \div 256, tail>>

\* the frame with its checksum bytes damaged
Corrupt(frame) ==
  [frame EXCEPT ![17] = (@ + 1) % 256]

\* rid 1, checksum over the header too; byte 14 is 0x0A, so that a header
\* four bytes ahead of the frame starts a candidate with a good trailer
FrameA == MkFrame(1, <<0, 0, 128, 63, 0, 0, 0, 64, 0, 0, 10, 64>>, TRUE, TAIL)
\* rid 3, floats 4.0 5.0 6.0, checksum without the header
FrameB == MkFrame(3, <<0, 0, 128, 64, 0, 0, 160, 64, 0, 0, 192, 64>>, FALSE, TAIL)
\* rid 2, checksum wrong under both windows
FrameBadCrc == Corrupt(MkFrame(2, <<0, 0, 224, 64, 0, 0, 0, 65, 0, 0, 16, 65>>, TRUE, TAIL))
\* trailer 0x0B
FrameBadTail == MkFrame(1, <<0, 0, 32, 65, 0, 0, 48, 65, 0, 0, 64, 65>>, TRUE, 11)
\* record identifier 4
FrameBadRid == MkFrame(4, <<0, 0, 80, 65, 0, 0, 96, 65, 0, 0, 112, 65>>, TRUE, TAIL)

\* the first four bytes of a frame, the rest lost on the line
Stub == HDR \o <<0, 1>>

Chunks ==
  { FrameA, FrameB, FrameBadCrc, FrameBadTail, FrameBadRid,
    <<0>>, Stub }

(***************************************************************************)
(* State.                                                                  *)
(***************************************************************************)
VARIABLES
  variant,    \* which module's DM_Serial is in use: "dm_serial" or "imu_recive"
  ser,        \* self.ser: "open", "closed" (a closed Serial object) or None
  wire,       \* bytes the device has sent that no read has taken yet
  nemit,      \* chunks sent so far
  ncalls,     \* calls on the object so far
  _buf,       \* dm_serial.DM_Serial._buf
  cnt_ok, cnt_crc, cnt_short, cnt_nohdr,
  buf,        \* imu_recive.DM_Serial.buf
  last,       \* the last call on the object: its inputs, its result (ret, or
              \* opened for reopen's bool), its scan
  prev,       \* the call before it
  th          \* the tasks of the step-level specification: where the reader
              \* stands inside read() and its locals, where the foreground
              \* stands inside destory()

vars == <<variant, ser, wire, nemit, ncalls, _buf, cnt_ok, cnt_crc, cnt_short,
          cnt_nohdr, buf, last, prev, th>>

Counters == [ok |-> cnt_ok, crc |-> cnt_crc, short |-> cnt_short, nohdr |-> cnt_nohdr]

\* the record kept of a call
Call(op, fed, scanned, trace, results, ret, why, buf0) ==
  [op |-> op, fed |-> fed, scanned |-> scanned, trace |-> trace,
   results |-> results, ret |-> ret, why |-> why, buf0 |-> buf0,
   cnt0 |-> Counters, opened |-> FALSE, ser0 |-> ser, raised |-> FALSE]

NoCall == [op |-> "new", fed |-> <<>>, scanned |-> <<>>, trace |-> <<>>,
           results |-> <<>>, ret |-> None, why |-> NoWhy, buf0 |-> <<>>,
           cnt0 |-> [ok |-> 0, crc |-> 0, short |-> 0, nohdr |-> 0],
           opened |-> FALSE, ser0 |-> NoSer, raised |-> FALSE]

(***************************************************************************)
(* dm_serial.DM_Serial._parse_all.  The loop state is a record:             *)
(*   buf, start, results  the locals of the method;                        *)
(*   selfbuf              self._buf;                                       *)
(*   same                 whether buf is (the same object as) self._buf;   *)
(*   crc, short, nohdr    what the loop has added to the counters;         *)
(*   base                 bytes dropped from the front of buf so far;      *)
(*   trace                one entry per iteration;                         *)
(*   done                 whether the loop has ended.                      *)
(***************************************************************************)
\* mutant: after a rejected candidate the cursor stays on its header
ResumeAt_same(j) == j

\* mutant: a rejected candidate is skipped whole
ResumeAt_frame(j) == j + FRAME_LEN

\* start = j + 1 after a candidate was sliced
ResumeAt(j) == j + 1

\* an iteration: what was found where (offsets of the buffer as scanned)
Event(s, why, j) ==
  [why |-> why, at |-> s.base + j, from |-> s.base + s.start, base |-> s.base]

\* mutant: every rejected candidate is counted as a checksum failure
CrcCount_any(v) == 1

\* what a rejected candidate adds to cnt_crc
CrcCount(v) == IF v = "crc" THEN 1 ELSE 0

\* mutant: only the header of an accepted frame is dropped
Consumed_header(j) == j + 2

\* buf = buf[j + FRAME_LEN:] after an accepted frame
Consumed(j) == j + FRAME_LEN

\* one iteration of the while loop of _parse_all; done after a break
ParseIter(s) ==
  LET j == Find(s.buf, s.start) IN
  IF j < 0 THEN
    [s EXCEPT !.selfbuf = IF s.buf # <<>> THEN LastByte(s.buf) ELSE <<>>,
              !.same = FALSE,
              !.nohdr = IF s.buf # <<>> THEN @ + 1 ELSE @,
              !.done = TRUE,
              !.trace = Append(@, Event(s, "nohdr", Len(s.buf)))]
  ELSE IF Len(s.buf) - j < FRAME_LEN THEN
    [s EXCEPT !.selfbuf = SliceFrom(s.buf, j),
              !.same = FALSE,
              !.short = @ + 1,
              !.done = TRUE,
              !.trace = Append(@, Event(s, "short", j))]
  ELSE
    LET frame == Slice(s.buf, j, j + FRAME_LEN)
        v     == Verdict(frame)
    IN  IF v = "ok" THEN
          [s EXCEPT !.results = Append(@, Decode(frame)),
                    !.buf = SliceFrom(s.buf, Consumed(j)),
                    !.same = FALSE,
                    !.start = 0,
                    !.base = @ + Consumed(j),
                    !.trace = Append(@, Event(s, "ok", j))]
        ELSE
          [s EXCEPT !.start = ResumeAt(j),
                    !.crc = @ + CrcCount(v),
                    !.trace = Append(@, Event(s, v, j))]

\* the while loop of _parse_all
RECURSIVE ParseLoop(_)
ParseLoop(s) ==
  LET t == ParseIter(s)
  IN  IF t.done THEN t ELSE ParseLoop(t)

\* the locals of _parse_all before its loop, self._buf = b
ParseStart(b) ==
  [buf |-> b, start |-> 0, results |-> <<>>, selfbuf |-> b, same |-> TRUE,
   crc |-> 0, short |-> 0, nohdr |-> 0, base |-> 0, trace |-> <<>>,
   done |-> FALSE]

\* mutant: the unconsumed bytes are thrown away at the end of a pass
SyncBack_clear(s) == <<>>

\* the tail of _parse_all: "if buf is not self._buf: self._buf = bytearray(buf)"
SyncBack(s) == IF ~s.same THEN s.buf ELSE s.selfbuf

\* _parse_all on self._buf = b: the loop's final state, with self._buf as left
parse_all(b) ==
  LET s == ParseLoop(ParseStart(b))
  IN  [s EXCEPT !.selfbuf = SyncBack(s)]

\* _read_into_buf: the number of bytes taken, given in_waiting and max_bytes
ReadCount(in_waiting, max_bytes) ==
  LET n == IF max_bytes > 0 /\ in_waiting > max_bytes THEN max_bytes ELSE in_waiting
  IN  IF n <= 0 THEN 0 ELSE n

\* mutant: the oldest frame of the pass
Latest_first(frames) == IF frames # <<>> THEN frames[1] ELSE None

\* frames[-1] if frames else None
Latest(frames) == IF frames # <<>> THEN frames[Len(frames)] ELSE None

(***************************************************************************)
(* Actions.                                                                *)
(***************************************************************************)
\* the values in_waiting may have while n bytes are on the line
Waiting(n) == {k \in 0..n : k <= MaxSplit \/ k = FRAME_LEN \/ k = n}

MaxBytesArgs == {0, 1, FRAME_LEN}

\* no scan loop is running
NoLoop == [buf |-> <<>>, start |-> 0, base |-> 0, trace |-> <<>>, done |-> TRUE]

\* no call is in progress: the reader is outside read(), nobody is in destory()
IdleTasks ==
  [pc |-> "idle", fg |-> "idle", n |-> 0, ls |-> NoLoop, iters |-> 0,
   passes |-> 0, ret |-> None]

Init ==
  /\ variant \in {"dm_serial", "imu_recive"}
  /\ th = IdleTasks
  /\ ser \in (IF variant = "dm_serial" THEN {"open", NoSer} ELSE {"open"})
  /\ wire = <<>>
  /\ nemit = 0
  /\ ncalls = 0
  /\ _buf = <<>>
  /\ cnt_ok = 0 /\ cnt_crc = 0 /\ cnt_short = 0 /\ cnt_nohdr = 0
  /\ buf = <<>>
  /\ last = NoCall
  /\ prev = NoCall

\* the device sends a chunk; it reaches the line only while the port is open
Emit(chunk) ==
  /\ nemit < MaxEmit
  /\ UNCHANGED th
  /\ ser = "open"
  /\ nemit' = nemit + 1
  /\ wire' = wire \o chunk
  /\ UNCHANGED <<variant, ser, ncalls, _buf, cnt_ok, cnt_crc, cnt_short,
                 cnt_nohdr, buf, last, prev>>

\* dm_serial.DM_Serial.read(max_bytes) with in_waiting bytes readable
Read(in_waiting, max_bytes) ==
  /\ variant = "dm_serial"
  /\ UNCHANGED th
  /\ ncalls < MaxCalls
  /\ ncalls' = ncalls + 1
  /\ prev' = last
  /\ IF ser # "open" THEN
       /\ last' = Call("read", <<>>, <<>>, <<>>, <<>>, None, NoWhy, _buf)
       /\ UNCHANGED <<wire, _buf, cnt_ok, cnt_crc, cnt_short, cnt_nohdr>>
     ELSE
       LET n   == ReadCount(in_waiting, max_bytes)
           fed == Slice(wire, 0, n)
           b   == _buf \o fed
           s   == parse_all(b)
       IN  /\ wire' = SliceFrom(wire, n)
           /\ _buf' = s.selfbuf
           /\ cnt_ok' = cnt_ok + Len(s.results)
           /\ cnt_crc' = cnt_crc + s.crc
           /\ cnt_short' = cnt_short + s.short
           /\ cnt_nohdr' = cnt_nohdr + s.nohdr
           /\ last' = Call("read", fed, b, s.trace, s.results, Latest(s.results),
                          NoWhy, _buf)
  /\ UNCHANGED <<variant, ser, nemit, buf>>

\* mutant: close() is called on whatever self.ser holds
DestoryRaises_unguarded(s) == s = NoSer

\* "if self.ser:" keeps destory() from calling close() on None
DestoryRaises(s) == FALSE

\* dm_serial.DM_Serial.destory() (destroy() is an alias): close, self.ser = None
Destory ==
  /\ variant = "dm_serial"
  /\ UNCHANGED th
  /\ ncalls < MaxCalls + ExtraCloses
  /\ ncalls' = ncalls + 1
  /\ prev' = last
  /\ ser' = NoSer
  /\ last' = [Call("destory", <<>>, <<>>, <<>>, <<>>, None, NoWhy, _buf)
               EXCEPT !.raised = DestoryRaises(ser)]
  /\ UNCHANGED <<variant, wire, nemit, _buf, cnt_ok, cnt_crc, cnt_short,
                 cnt_nohdr, buf>>

\* _open(): serial.Serial(...) succeeds or raises; reset_input_buffer() may raise
OpenResult(opened, flushed) ==
  [ser  |-> IF opened THEN "open" ELSE NoSer,
   wire |-> IF opened /\ flushed THEN <<>> ELSE wire,
   ret  |-> opened]

\* dm_serial.DM_Serial.reopen(): destory() then _open()
Reopen(opened, flushed) ==
  /\ variant = "dm_serial"
  /\ UNCHANGED th
  /\ ncalls < MaxCalls
  /\ ncalls' = ncalls + 1
  /\ prev' = last
  /\ LET r == OpenResult(opened, flushed)
     IN  /\ ser' = r.ser
         /\ wire' = r.wire
         /\ last' = [Call("reopen", <<>>, <<>>, <<>>, <<>>, None, NoWhy, _buf)
                       EXCEPT !.opened = r.ret]
  /\ UNCHANGED <<variant, nemit, _buf, cnt_ok, cnt_crc, cnt_short, cnt_nohdr,
                 buf>>

(***************************************************************************)
(* imu_recive.DM_Serial: read() decodes at most one frame per call and     *)
(* returns (parsed, buf, why).                                             *)
(***************************************************************************)
\* mutant: a wrong trailer is reported as a checksum failure
VerdictOne_tail_as_crc(frame) ==
  IF At(frame, 18) # TAIL THEN "crc"
  ELSE IF At(frame, 3) \notin VALID_RIDS THEN "rid"
  ELSE IF dm_crc16(Slice(frame, 0, 16)) # crc_wire(frame) THEN "crc"
  ELSE "ok"

\* mutant: the second coverage window is accepted too
VerdictOne_dual(frame) == Verdict(frame)

\* the checks of imu_recive.read on one candidate: one checksum window only
VerdictOne(frame) ==
  IF At(frame, 18) # TAIL THEN "tail"
  ELSE IF At(frame, 3) \notin VALID_RIDS THEN "rid"
  ELSE IF dm_crc16(Slice(frame, 0, 16)) # crc_wire(frame) THEN "crc"
  ELSE "ok"

\* mutant: a checksum-failed candidate is skipped whole
ResumeOne_frame(j) == j + FRAME_LEN

\* i = j + 1
ResumeOne(j) == j + 1

\* one iteration of the while loop of imu_recive.read: s.buf is self.buf,
\* s.start the cursor i; done after a return
OneIter(s) ==
  LET j == Find(s.buf, s.start) IN
  IF j < 0 THEN
    [s EXCEPT !.buf = IF s.buf # <<>> THEN LastByte(s.buf) ELSE <<>>,
              !.why = "nohdr",
              !.done = TRUE,
              !.trace = Append(@, Event(s, "nohdr", Len(s.buf)))]
  ELSE IF Len(s.buf) - j < FRAME_LEN THEN
    [s EXCEPT !.buf = SliceFrom(s.buf, j),
              !.why = "short",
              !.done = TRUE,
              !.trace = Append(@, Event(s, "short", j))]
  ELSE
    LET frame == Slice(s.buf, j, j + FRAME_LEN)
        v     == VerdictOne(frame)
    IN  IF v = "ok" THEN
          [s EXCEPT !.buf = SliceFrom(s.buf, j + FRAME_LEN),
                    !.parsed = Decode(frame),
                    !.why = "ok",
                    !.done = TRUE,
                    !.trace = Append(@, Event(s, "ok", j))]
        ELSE IF v = "crc" THEN
          [s EXCEPT !.buf = SliceFrom(s.buf, ResumeOne(j)),
                    !.why = "crc",
                    !.done = TRUE,
                    !.trace = Append(@, Event(s, "crc", j))]
        ELSE
          [s EXCEPT !.start = ResumeOne(j),
                    !.trace = Append(@, Event(s, v, j))]

\* the while loop of imu_recive.read
RECURSIVE ReadOneLoop(_)
ReadOneLoop(s) ==
  LET t == OneIter(s)
  IN  IF t.done THEN t ELSE ReadOneLoop(t)

\* the state of imu_recive.read before its loop, self.buf = b
OneStart(b) ==
  [buf |-> b, start |-> 0, base |-> 0, parsed |-> None, why |-> NoWhy,
   trace |-> <<>>, done |-> FALSE]

read_one(b) == ReadOneLoop(OneStart(b))

\* _fill: in_waiting bytes, or read(1) which waits up to the timeout for a byte
FillCount(in_waiting, late) ==
  IF in_waiting > 0 THEN in_waiting
  ELSE IF late /\ Len(wire) > 0 THEN 1 ELSE 0

\* imu_recive.DM_Serial.read(); on a closed port _fill raises in in_waiting
ReadOne(in_waiting, late) ==
  /\ variant = "imu_recive"
  /\ UNCHANGED th
  /\ ncalls < MaxCalls
  /\ ncalls' = ncalls + 1
  /\ prev' = last
  /\ IF ser # "open" THEN
       /\ last' = [Call("read", <<>>, <<>>, <<>>, <<>>, None, NoWhy, buf)
                    EXCEPT !.raised = TRUE]
       /\ UNCHANGED <<wire, buf>>
     ELSE
       LET n   == FillCount(in_waiting, late)
           fed == Slice(wire, 0, n)
           b   == buf \o fed
           s   == read_one(b)
       IN  /\ wire' = SliceFrom(wire, n)
           /\ buf' = s.buf
           /\ last' = Call("read", fed, b, s.trace,
                           IF s.why = "ok" THEN <<s.parsed>> ELSE <<>>,
                           s.parsed, s.why, buf)
  /\ UNCHANGED <<variant, ser, nemit, _buf, cnt_ok, cnt_crc, cnt_short,
                 cnt_nohdr>>

\* imu_recive.DM_Serial.close(): closes an open port, keeps the object, and
\* swallows every exception
Close ==
  /\ variant = "imu_recive"
  /\ UNCHANGED th
  /\ ncalls < MaxCalls + ExtraCloses
  /\ ncalls' = ncalls + 1
  /\ prev' = last
  /\ ser' = IF ser = "open" THEN "closed" ELSE ser
  /\ last' = Call("close", <<>>, <<>>, <<>>, <<>>, None, NoWhy, buf)
  /\ UNCHANGED <<variant, wire, nemit, _buf, cnt_ok, cnt_crc, cnt_short,
                 cnt_nohdr, buf>>

Next ==
  \/ \E c \in Chunks : Emit(c)
  \/ \E w \in Waiting(Len(wire)), m \in MaxBytesArgs : Read(w, m)
  \/ Destory
  \/ \E opened \in BOOLEAN, flushed \in BOOLEAN : Reopen(opened, flushed)
  \/ \E w \in Waiting(Len(wire)), late \in BOOLEAN : ReadOne(w, late)
  \/ Close

Spec == Init /\ [][Next]_vars

(***************************************************************************)
(* The step-level specification.  A reader task calls read() again and     *)
(* again; each evaluation of self.ser, each call on the port and each      *)
(* iteration of the scan loop is a step of its own.  For dm_serial a       *)
(* foreground task calls destory() once, its steps interleaved with the    *)
(* reader's: dm_serial.py takes no lock.                                   *)
(***************************************************************************)
\* chunks the device has sent before the tasks start
MaxStepChunks == 2
\* calls of read() by the reader task
MaxStepPasses == 2
\* cap on the iterations of one scan loop
MaxIters == 8

\* the byte streams made of at most k chunks
RECURSIVE Wires(_)
Wires(k) ==
  IF k = 0 THEN {<<>>}
  ELSE LET W == Wires(k - 1) IN W \cup {w \o c : w \in W, c \in Chunks}

InitStep ==
  /\ variant \in {"dm_serial", "imu_recive"}
  /\ ser = "open"
  /\ wire \in Wires(MaxStepChunks)
  /\ nemit = 0
  /\ ncalls = 0
  /\ _buf = <<>>
  /\ cnt_ok = 0 /\ cnt_crc = 0 /\ cnt_short = 0 /\ cnt_nohdr = 0
  /\ buf = <<>>
  /\ last = NoCall
  /\ prev = NoCall
  /\ th = IdleTasks

\* the background task of main.py: start_reader() keeps calling read()
ReaderRuns == th.pc = "idle" /\ th.passes < MaxStepPasses

\* read() returns r
Returned(r) == [th EXCEPT !.pc = "idle", !.ret = r, !.passes = @ + 1]

\* an exception leaves read() and ends the reader task
Raised == [th EXCEPT !.pc = "raised"]

\* _parse_all starts on the buffer b
Parsing(b) == [th EXCEPT !.pc = "loop", !.ls = ParseStart(b), !.iters = 0]

\* read(), line 56, "not self.ser"
ReadEnter ==
  /\ variant = "dm_serial"
  /\ ReaderRuns
  /\ th' = IF ser = NoSer THEN Returned(None) ELSE [th EXCEPT !.pc = "is_open"]
  /\ UNCHANGED <<variant, ser, wire, nemit, ncalls, _buf, cnt_ok, cnt_crc,
                 cnt_short, cnt_nohdr, buf, last, prev>>

\* read(), line 56, "not self.ser.is_open": None has no attribute is_open
ReadIsOpen ==
  /\ th.pc = "is_open"
  /\ th' = IF ser = NoSer THEN Raised
           ELSE IF ser = "closed" THEN Returned(None)
           ELSE [th EXCEPT !.pc = "if_ser"]
  /\ UNCHANGED <<variant, ser, wire, nemit, ncalls, _buf, cnt_ok, cnt_crc,
                 cnt_short, cnt_nohdr, buf, last, prev>>

\* _read_into_buf, line 99, "if self.ser else 0"; n = 0 returns at line 103
ReadIfSer ==
  /\ th.pc = "if_ser"
  /\ th' = IF ser = NoSer THEN Parsing(_buf) ELSE [th EXCEPT !.pc = "in_waiting"]
  /\ UNCHANGED <<variant, ser, wire, nemit, ncalls, _buf, cnt_ok, cnt_crc,
                 cnt_short, cnt_nohdr, buf, last, prev>>

\* _read_into_buf, lines 99-103, getattr(self.ser, "in_waiting", 0): 0 for
\* None, an exception of the port for a closed port
ReadInWaiting(in_waiting, max_bytes) ==
  /\ th.pc = "in_waiting"
  /\ th' = IF ser = NoSer THEN Parsing(_buf)
           ELSE IF ser = "closed" THEN Raised
           ELSE LET n == ReadCount(in_waiting, max_bytes)
                IN  IF n <= 0 THEN Parsing(_buf)
                    ELSE [th EXCEPT !.pc = "ser_read", !.n = n]
  /\ UNCHANGED <<variant, ser, wire, nemit, ncalls, _buf, cnt_ok, cnt_crc,
                 cnt_short, cnt_nohdr, buf, last, prev>>

\* _read_into_buf, line 104, self._buf.extend(self.ser.read(n))
ReadSerRead ==
  /\ th.pc = "ser_read"
  /\ IF ser # "open" THEN
       /\ th' = Raised
       /\ UNCHANGED <<wire, _buf>>
     ELSE
       /\ wire' = SliceFrom(wire, th.n)
       /\ _buf' = _buf \o Slice(wire, 0, th.n)
       /\ th' = Parsing(_buf \o Slice(wire, 0, th.n))
  /\ UNCHANGED <<variant, ser, nemit, ncalls, cnt_ok, cnt_crc, cnt_short,
                 cnt_nohdr, buf, last, prev>>

\* one iteration of the loop of _parse_all, lines 113-160
ParseStep ==
  /\ variant = "dm_serial"
  /\ th.pc = "loop"
  /\ th.iters < MaxIters
  /\ LET t == ParseIter(th.ls)
     IN  th' = [th EXCEPT !.ls = t, !.iters = @ + 1,
                          !.pc = IF t.done THEN "sync" ELSE "loop"]
  /\ UNCHANGED <<variant, ser, wire, nemit, ncalls, _buf, cnt_ok, cnt_crc,
                 cnt_short, cnt_nohdr, buf, last, prev>>

\* _parse_all, lines 162-168, and the return of read(), line 61
ReadReturn ==
  /\ th.pc = "sync"
  /\ _buf' = SyncBack(th.ls)
  /\ cnt_ok' = cnt_ok + Len(th.ls.results)
  /\ cnt_crc' = cnt_crc + th.ls.crc
  /\ cnt_short' = cnt_short + th.ls.short
  /\ cnt_nohdr' = cnt_nohdr + th.ls.nohdr
  /\ th' = Returned(Latest(th.ls.results))
  /\ UNCHANGED <<variant, ser, wire, nemit, ncalls, buf, last, prev>>

\* destory(), line 64, "if self.ser:"
DestoryIfSer ==
  /\ variant = "dm_serial"
  /\ th.fg = "idle"
  /\ th' = [th EXCEPT !.fg = IF ser = NoSer THEN "done" ELSE "close"]
  /\ UNCHANGED <<variant, ser, wire, nemit, ncalls, _buf, cnt_ok, cnt_crc,
                 cnt_short, cnt_nohdr, buf, last, prev>>

\* destory(), line 67, self.ser.close()
DestoryClose ==
  /\ th.fg = "close"
  /\ ser' = "closed"
  /\ th' = [th EXCEPT !.fg = "finally"]
  /\ UNCHANGED <<variant, wire, nemit, ncalls, _buf, cnt_ok, cnt_crc,
                 cnt_short, cnt_nohdr, buf, last, prev>>

\* destory(), line 69, self.ser = None
DestorySetNone ==
  /\ th.fg = "finally"
  /\ ser' = NoSer
  /\ th' = [th EXCEPT !.fg = "done"]
  /\ UNCHANGED <<variant, wire, nemit, ncalls, _buf, cnt_ok, cnt_crc,
                 cnt_short, cnt_nohdr, buf, last, prev>>

\* imu_recive read(), line 48, _fill()
OneFill(in_waiting, late) ==
  /\ variant = "imu_recive"
  /\ ReaderRuns
  /\ LET n == FillCount(in_waiting, late)
         b == buf \o Slice(wire, 0, n)
     IN  /\ wire' = SliceFrom(wire, n)
         /\ buf' = b
         /\ th' = [th EXCEPT !.pc = "loop", !.ls = OneStart(b), !.iters = 0]
  /\ UNCHANGED <<variant, ser, nemit, ncalls, _buf, cnt_ok, cnt_crc, cnt_short,
                 cnt_nohdr, last, prev>>

\* one iteration of the loop of imu_recive read(), lines 51-88
OneStep ==
  /\ variant = "imu_recive"
  /\ th.pc = "loop"
  /\ th.iters < MaxIters
  /\ LET t == OneIter(th.ls)
     IN  /\ buf' = IF t.done THEN t.buf ELSE buf
         /\ th' = IF t.done
                  THEN [Returned(t.parsed) EXCEPT !.ls = t, !.iters = @ + 1]
                  ELSE [th EXCEPT !.ls = t, !.iters = @ + 1]
  /\ UNCHANGED <<variant, ser, wire, nemit, ncalls, _buf, cnt_ok, cnt_crc,
                 cnt_short, cnt_nohdr, last, prev>>

NextStep ==
  \/ ReadEnter
  \/ ReadIsOpen
  \/ ReadIfSer
  \/ \E w \in Waiting(Len(wire)), m \in MaxBytesArgs : ReadInWaiting(w, m)
  \/ ReadSerRead
  \/ ParseStep
  \/ ReadReturn
  \/ DestoryIfSer
  \/ DestoryClose
  \/ DestorySetNone
  \/ \E w \in Waiting(Len(wire)), late \in BOOLEAN : OneFill(w, late)
  \/ OneStep

SpecStep == InitStep /\ [][NextStep]_vars

(***************************************************************************)
(* The wire format, stated on a 19-byte window w (1-based), for the        *)
(* properties below.                                                       *)
(***************************************************************************)
WireCrc(w) == w[17] + 256 * w[18]
CrcIncl(w) == dm_crc16(SubSeq(w, 1, 16)) = WireCrc(w)
CrcExcl(w) == dm_crc16(SubSeq(w, 3, 16)) = WireCrc(w)
WellFormed(w) ==
  /\ Len(w) = 19
  /\ w[1] = 85 /\ w[2] = 170
  /\ w[19] = 10
  /\ w[4] \in {1, 2, 3}
ValidFrame(w) == WellFormed(w) /\ (CrcIncl(w) \/ CrcExcl(w))
LE32(w, k) == w[k] + 256 * w[k + 1] + 65536 * w[k + 2] + 16777216 * w[k + 3]
SampleOf(w) == <<w[4], <<LE32(w, 5), LE32(w, 9), LE32(w, 13)>>>>

\* the 19 bytes at offset a of the buffer the last call scanned
Window(c, a) == SubSeq(c.scanned, a + 1, a + 19)
\* a whole window lies at offset a
Whole(c, a) == a >= 0 /\ a + 19 <= Len(c.scanned)
\* the k-th of the frames a buffer is cut into
Cut(b, k) == SubSeq(b, 19 * (k - 1) + 1, 19 * k)
\* a buffer that is k >= 1 valid frames back to back
BackToBack(b) ==
  /\ Len(b) > 0
  /\ Len(b) % 19 = 0
  /\ \A k \in 1..(Len(b) \div 19) : ValidFrame(Cut(b, k))

\* iterations of a call's scan with a given outcome
Hits(c, why) == {i \in 1..Len(c.trace) : c.trace[i].why = why}

\* the last call was a decode pass of dm_serial.DM_Serial.read on an open port
LatestPass(c) == variant = "dm_serial" /\ c.op = "read" /\ c.trace # <<>>
\* the last call was a decode pass of imu_recive.DM_Serial.read
OnePass(c) == variant = "imu_recive" /\ c.op = "read" /\ c.trace # <<>>

(***************************************************************************)
(* C1.  A read() pass over a buffer that is k >= 1 valid frames back to    *)
(* back returns the sample of the last frame and adds exactly k to cnt_ok; *)
(* a pass in which no frame completes returns None and leaves cnt_ok.      *)
(***************************************************************************)
C1_LatestOfBacklog ==
  LatestPass(last) =>
    /\ BackToBack(last.scanned) =>
         LET k == Len(last.scanned) \div 19
         IN  /\ last.ret = SampleOf(Cut(last.scanned, k))
             /\ cnt_ok = last.cnt0.ok + k
    /\ Hits(last, "ok") = {} =>
         /\ last.ret = None
         /\ cnt_ok = last.cnt0.ok

\* two different valid frames were decoded in one pass
C1_Witness ==
  /\ LatestPass(last)
  /\ BackToBack(last.scanned)
  /\ Len(last.scanned) = 38
  /\ Cut(last.scanned, 1) # Cut(last.scanned, 2)
  /\ cnt_ok = last.cnt0.ok + 2

(***************************************************************************)
(* C2.  In a read() pass, a candidate with trailer 0x0A and record         *)
(* identifier in {1,2,3} is accepted exactly when its checksum bytes match *)
(* the checksum of [0,16) or of [2,16), and is counted in cnt_crc exactly  *)
(* when they match neither; cnt_ok and cnt_crc grow by the number of       *)
(* accepted and of checksum-rejected candidates of the pass.               *)
(***************************************************************************)
C2_DualWindow ==
  LatestPass(last) =>
    /\ \A i \in 1..Len(last.trace) :
         LET e == last.trace[i]
             w == Window(last, e.at)
         IN  (e.why \in {"ok", "crc", "tail", "rid"} /\ WellFormed(w)) =>
               /\ (CrcIncl(w) \/ CrcExcl(w)) => e.why = "ok"
               /\ ~(CrcIncl(w) \/ CrcExcl(w)) => e.why = "crc"
    /\ \A i \in Hits(last, "crc") :
         LET w == Window(last, last.trace[i].at)
         IN  WellFormed(w) /\ ~CrcIncl(w) /\ ~CrcExcl(w)
    /\ cnt_ok = last.cnt0.ok + Cardinality(Hits(last, "ok"))
    /\ cnt_crc = last.cnt0.crc + Cardinality(Hits(last, "crc"))

\* a frame whose checksum matches only the header-exclusive window was accepted
C2_Witness ==
  /\ LatestPass(last)
  /\ \E i \in Hits(last, "ok") :
       LET w == Window(last, last.trace[i].at)
       IN  ~CrcIncl(w) /\ CrcExcl(w)
  /\ cnt_ok > last.cnt0.ok
  /\ cnt_crc = last.cnt0.crc

(***************************************************************************)
(* C3.  When a read() pass rejects a candidate at offset a for its         *)
(* checksum and a valid frame follows it immediately (at a + 19), the pass *)
(* counts the candidate in cnt_crc, resumes the scan at a + 1, and decodes *)
(* the following frame: cnt_ok grows, and the frame is what the pass       *)
(* returns when no later frame of the pass supersedes it.                  *)
(***************************************************************************)
C3_ResyncAfterBadCrc ==
  LatestPass(last) =>
    \A i \in Hits(last, "crc") :
      LET a == last.trace[i].at
          f == Window(last, a + 19)
      IN  (Whole(last, a + 19) /\ ValidFrame(f)) =>
            /\ cnt_crc >= last.cnt0.crc + 1
            /\ i < Len(last.trace)
            /\ last.trace[i + 1].from = a + 1
            /\ \E k \in Hits(last, "ok") :
                 /\ k > i
                 /\ last.trace[k].at = a + 19
                 /\ last.results[Cardinality({h \in Hits(last, "ok") : h <= k})]
                      = SampleOf(f)
                 /\ (\A h \in Hits(last, "ok") : h <= k) => last.ret = SampleOf(f)
            /\ cnt_ok >= last.cnt0.ok + 1

\* a checksum-rejected candidate, the valid frame right after it returned
C3_Witness ==
  /\ LatestPass(last)
  /\ \E i \in Hits(last, "crc") :
       LET a == last.trace[i].at
       IN  /\ Whole(last, a + 19)
           /\ ValidFrame(Window(last, a + 19))
           /\ last.ret = SampleOf(Window(last, a + 19))
  /\ cnt_crc = last.cnt0.crc + 1
  /\ cnt_ok = last.cnt0.ok + 1

(***************************************************************************)
(* Helpers for the properties of both readers.                             *)
(***************************************************************************)
\* a decode pass of either reader
AnyPass(c) == c.op = "read" /\ c.trace # <<>>

\* a frame the reader in use accepts: imu_recive knows the window [0,16) only
ValidFor(w) ==
  WellFormed(w) /\ (CrcIncl(w) \/ (variant = "dm_serial" /\ CrcExcl(w)))

\* the number of accepted candidates among the first i iterations
Rank(c, i) == Cardinality({h \in Hits(c, "ok") : h <= i})

\* the counters of dm_serial grew by what the iterations of the pass account for
Accounted(c) ==
  /\ cnt_ok = c.cnt0.ok + Cardinality(Hits(c, "ok"))
  /\ cnt_crc = c.cnt0.crc + Cardinality(Hits(c, "crc"))
  /\ cnt_short = c.cnt0.short + Cardinality(Hits(c, "short"))
  /\ cnt_nohdr = c.cnt0.nohdr
       + Cardinality({i \in Hits(c, "nohdr") : c.trace[i].base < Len(c.scanned)})

\* offsets after a where a whole frame valid for the reader starts
ValidAfter(c, a) ==
  {k \in (a + 1)..(Len(c.scanned) - 19) : ValidFor(Window(c, k))}

\* offsets after a where a whole candidate fails only its checksum
BadCrcAfter(c, a) ==
  {k \in (a + 1)..(Len(c.scanned) - 19) :
     WellFormed(Window(c, k)) /\ ~ValidFor(Window(c, k))}

Least(S) == CHOOSE k \in S : \A m \in S : k <= m

\* the pass accepted the candidate at offset k
DecodedAt(c, k) == \E h \in Hits(c, "ok") : c.trace[h].at = k

(***************************************************************************)
(* C4 as claimed.  A candidate rejected for its trailer changes no counter *)
(* by itself, the scan resumes one byte after it, and every valid frame    *)
(* that starts at a later offset is decoded in the same pass.              *)
(***************************************************************************)
C4_AnyLaterFrameSamePass ==
  AnyPass(last) =>
    \A i \in Hits(last, "tail") :
      LET a == last.trace[i].at
      IN  /\ variant = "dm_serial" => Accounted(last)
          /\ i < Len(last.trace)
          /\ last.trace[i + 1].from = a + 1
          /\ \A k \in ValidAfter(last, a) : DecodedAt(last, k)

(***************************************************************************)
(* C4 amended.  A candidate rejected for its trailer changes no counter by *)
(* itself and the scan resumes one byte after it, so the first valid frame *)
(* that starts at a later offset, overlapping the candidate or not, is     *)
(* decoded in the same pass; in the one-at-a-time read this holds unless a *)
(* checksum-failed candidate before that frame ends the pass.              *)
(***************************************************************************)
C4_FirstLaterFrameSamePass ==
  AnyPass(last) =>
    \A i \in Hits(last, "tail") :
      LET a == last.trace[i].at
          V == ValidAfter(last, a)
      IN  /\ variant = "dm_serial" => Accounted(last)
          /\ i < Len(last.trace)
          /\ last.trace[i + 1].from = a + 1
          /\ V # {} =>
               \/ DecodedAt(last, Least(V))
               \/ /\ variant = "imu_recive"
                  /\ \E b \in BadCrcAfter(last, a) : b < Least(V)
                  /\ last.why = "crc"

\* a trailer-rejected candidate, and a valid frame overlapping it decoded
C4_Witness ==
  /\ LatestPass(last)
  /\ \E i \in Hits(last, "tail") :
       LET a == last.trace[i].at
       IN  \E k \in ValidAfter(last, a) :
             /\ k < a + 19
             /\ DecodedAt(last, k)
             /\ last.ret = SampleOf(Window(last, k))
  /\ Counters = [last.cnt0 EXCEPT !.ok = @ + 1]

(***************************************************************************)
(* C5.  A valid frame arrives in two feeds, a read() pass after each, the  *)
(* first feed ending with the header byte 0x55: the second pass returns    *)
(* the frame, cnt_nohdr grows by at most one over the two passes, and by   *)
(* exactly one when the first pass scanned no complete header.             *)
(***************************************************************************)
NoHeader(b) == \A i \in 1..(Len(b) - 1) : ~(b[i] = 85 /\ b[i + 1] = 170)

SplitFrame ==
  /\ LatestPass(prev)
  /\ LatestPass(last)
  /\ prev.fed # <<>>
  /\ prev.fed[Len(prev.fed)] = 85
  /\ Len(last.fed) = 18
  /\ ValidFrame(<<85>> \o last.fed)

C5_SplitHeader ==
  SplitFrame =>
    /\ last.ret = SampleOf(<<85>> \o last.fed)
    /\ cnt_ok >= last.cnt0.ok + 1
    /\ cnt_nohdr <= prev.cnt0.nohdr + 1
    /\ NoHeader(prev.scanned) => cnt_nohdr = prev.cnt0.nohdr + 1

\* junk and the first header byte, then the rest of the frame
C5_Witness ==
  /\ SplitFrame
  /\ Len(prev.fed) > 1
  /\ NoHeader(prev.scanned)
  /\ cnt_nohdr = prev.cnt0.nohdr + 1
  /\ last.ret = SampleOf(<<85>> \o last.fed)

(***************************************************************************)
(* C6.  reopen() leaves the frame buffer empty and the four counters as    *)
(* they were, whether the port opens or not.                               *)
(***************************************************************************)
C6_ReopenClearsBuffer ==
  (variant = "dm_serial" /\ last.op = "reopen") =>
    /\ _buf = <<>>
    /\ Counters = last.cnt0

(***************************************************************************)
(* C7.  Every sample either reader produces is the decoding of a 19-byte   *)
(* window of the scanned buffer that starts with 0x55 0xAA, ends with      *)
(* 0x0A, has byte 3 in {1,2,3} and a checksum matching a coverage window   *)
(* the reader allows; a call produces no other sample.                     *)
(***************************************************************************)
C7_SamplesOnlyFromValidFrames ==
  /\ ~AnyPass(last) => last.results = <<>>
  /\ AnyPass(last) =>
       /\ Len(last.results) = Cardinality(Hits(last, "ok"))
       /\ \A i \in Hits(last, "ok") :
            LET a == last.trace[i].at
            IN  /\ Whole(last, a)
                /\ ValidFor(Window(last, a))
                /\ last.results[Rank(last, i)] = SampleOf(Window(last, a))
       /\ last.ret # None =>
            \E n \in 1..Len(last.results) : last.ret = last.results[n]
       /\ variant = "imu_recive" =>
            /\ last.why = "ok" <=> last.results # <<>>
            /\ last.why = "ok" <=> last.ret # None

\* a pass that met a candidate with a foreign record identifier and a valid frame
C7_Witness ==
  /\ AnyPass(last)
  /\ Hits(last, "rid") # {}
  /\ Hits(last, "ok") # {}
  /\ last.ret # None

(***************************************************************************)
(* C8.  After every read() pass the frame buffer is empty, a single byte,  *)
(* or a header-led prefix shorter than a frame.                            *)
(***************************************************************************)
C8_BufferShapeAfterPass ==
  LatestPass(last) =>
    \/ _buf = <<>>
    \/ Len(_buf) = 1
    \/ (Len(_buf) < 19 /\ HdrAt(_buf, 0))

(***************************************************************************)
(* C9.  A read() pass that ends because no header stands in the bytes left *)
(* to scan keeps at most the last byte of the buffer and has added one to  *)
(* cnt_nohdr.                                                              *)
(***************************************************************************)
C9_NoHeaderKeepsLastByte ==
  LET e == last.trace[Len(last.trace)]
  IN  (LatestPass(last) /\ e.why = "nohdr" /\ e.base < Len(last.scanned)) =>
        /\ _buf = SubSeq(last.scanned, Len(last.scanned), Len(last.scanned))
        /\ cnt_nohdr = last.cnt0.nohdr + 1

(***************************************************************************)
(* C10.  A read() pass that ends because a header at offset j has fewer    *)
(* than 19 bytes after it keeps exactly the bytes from j onward and has    *)
(* added one to cnt_short.                                                 *)
(***************************************************************************)
C10_ShortKeepsFromHeader ==
  LET e == last.trace[Len(last.trace)]
  IN  (LatestPass(last) /\ e.why = "short") =>
        /\ _buf = SubSeq(last.scanned, e.at + 1, Len(last.scanned))
        /\ cnt_short = last.cnt0.short + 1

(***************************************************************************)
(* Helpers for the outcomes of single iterations.                          *)
(***************************************************************************)
\* the bytes of the scanned buffer from offset a on
Rest(c, a) == SubSeq(c.scanned, a + 1, Len(c.scanned))

\* iteration i of the pass has the outcome that the scanned bytes call for
Classified(c, i) ==
  LET e == c.trace[i]
      w == Window(c, e.at)
  IN  IF e.why = "nohdr" THEN NoHeader(Rest(c, e.from))
      ELSE /\ e.at >= e.from
           /\ NoHeader(SubSeq(c.scanned, e.from + 1, e.at + 1))
           /\ Len(c.scanned) >= e.at + 2
           /\ c.scanned[e.at + 1] = 85 /\ c.scanned[e.at + 2] = 170
           /\ IF e.why = "short" THEN ~Whole(c, e.at)
              ELSE /\ Whole(c, e.at)
                   /\ IF e.why = "tail" THEN w[19] # 10
                      ELSE IF e.why = "rid" THEN w[19] = 10 /\ w[4] \notin {1, 2, 3}
                      ELSE IF e.why = "crc" THEN WellFormed(w) /\ ~ValidFor(w)
                      ELSE e.why = "ok" /\ ValidFor(w)

\* iterations that met an anomaly in a buffer that holds bytes
Anomalies(c) ==
  {i \in 1..Len(c.trace) :
     /\ c.trace[i].why # "ok"
     /\ ~(c.trace[i].why = "nohdr" /\ c.trace[i].base >= Len(c.scanned))}

\* iterations whose candidate was rejected after its 19 bytes were seen
Rejected(c) == Hits(c, "tail") \cup Hits(c, "rid") \cup Hits(c, "crc")

\* the sum of the three anomaly counters of dm_serial
Anomalous(k) == k.crc + k.short + k.nohdr

(***************************************************************************)
(* C11 as claimed.  Every anomaly met in a pass of dm_serial (missing      *)
(* header, truncated frame, checksum mismatch, unknown record identifier,  *)
(* wrong trailer) increments a statistics counter.                         *)
(***************************************************************************)
C11_EveryAnomalyCounted ==
  LatestPass(last) =>
    Anomalous(Counters) - Anomalous(last.cnt0) = Cardinality(Anomalies(last))

(***************************************************************************)
(* C11.  In a pass of dm_serial every iteration has the outcome its bytes  *)
(* call for; a missing header in a non-empty buffer, a truncated frame and *)
(* a checksum mismatch each add one to their counter, a wrong trailer and  *)
(* an unknown record identifier add to no counter; no anomaly raises; the  *)
(* scan resumes one byte after a rejected candidate, and only a missing    *)
(* header or a truncated frame ends the pass.                              *)
(***************************************************************************)
C11_AnomaliesCountedOrSkipped ==
  LatestPass(last) =>
    /\ ~last.raised
    /\ \A i \in 1..Len(last.trace) : Classified(last, i)
    /\ Accounted(last)
    /\ Anomalous(Counters) - Anomalous(last.cnt0)
         = Cardinality(Anomalies(last) \ (Hits(last, "tail") \cup Hits(last, "rid")))
    /\ \A i \in Rejected(last) :
         /\ i < Len(last.trace)
         /\ last.trace[i + 1].from = last.trace[i].at + 1
         /\ last.trace[i + 1].base = last.trace[i].base
    /\ \A i \in Hits(last, "short") \cup Hits(last, "nohdr") : i = Len(last.trace)
    /\ last.trace[Len(last.trace)].why \in {"short", "nohdr"}
    /\ last.ret = Latest(last.results)

\* one pass meets a wrong trailer, an unknown identifier and a bad checksum
C11_Witness ==
  /\ LatestPass(last)
  /\ Hits(last, "tail") # {}
  /\ Hits(last, "rid") # {}
  /\ Hits(last, "crc") # {}
  /\ cnt_crc = last.cnt0.crc + 1
  /\ cnt_nohdr + cnt_short = last.cnt0.nohdr + last.cnt0.short + 1

(***************************************************************************)
(* C12.  destory() of dm_serial and close() of imu_recive release the      *)
(* handle, raise nothing and leave the buffer and the counters as they     *)
(* were; a further call right after leaves the released handle as it was   *)
(* too.                                                                    *)
(***************************************************************************)
C12_CloseIdempotent ==
  /\ last.op = "destory" =>
       /\ ser = NoSer
       /\ ~last.raised
       /\ _buf = last.buf0
       /\ Counters = last.cnt0
  /\ last.op = "close" =>
       /\ ser = "closed"
       /\ ~last.raised
       /\ buf = last.buf0
       /\ Counters = last.cnt0
  /\ (last.op \in {"destory", "close"} /\ prev.op = last.op) =>
       ser = last.ser0

\* destory() a second time, on a decoder that holds bytes and has counted
C12_Witness ==
  /\ last.op = "destory"
  /\ prev.op = "destory"
  /\ last.ser0 = NoSer
  /\ _buf # <<>>
  /\ cnt_ok > 0

(***************************************************************************)
(* C13.  Every read() of imu_recive that returns has exactly one tagged    *)
(* outcome: the tag is one of ok, nohdr, short, crc and is the outcome of  *)
(* the iteration that ended the call; the sample is not None exactly when  *)
(* the tag is ok, and is then the sample of the accepted candidate.        *)
(***************************************************************************)
C13_OneTaggedOutcome ==
  (variant = "imu_recive" /\ last.op = "read" /\ ~last.raised) =>
    /\ last.why \in {"ok", "nohdr", "short", "crc"}
    /\ (last.ret # None) <=> (last.why = "ok")
    /\ last.trace # <<>>
    /\ LET n == Len(last.trace)
           e == last.trace[n]
       IN  /\ e.why = last.why
           /\ Classified(last, n)
           /\ \A i \in 1..(n - 1) : last.trace[i].why \in {"tail", "rid"}
           /\ last.why = "ok" => last.ret = SampleOf(Window(last, e.at))
    /\ Len(last.results) = IF last.why = "ok" THEN 1 ELSE 0

\* a call that returned a sample, then a call that returned none with 'crc'
C13_Witness ==
  /\ OnePass(prev)
  /\ prev.why = "ok"
  /\ prev.ret # None
  /\ OnePass(last)
  /\ last.why = "crc"
  /\ last.ret = None

(***************************************************************************)
(* C14.  When a read() pass of dm_serial returns, no 19-byte window of the *)
(* frame buffer passes validation; after each accepted frame the bytes up  *)
(* to its end are dropped and the scan restarts at cursor 0 of what is     *)
(* left, and the buffer kept is a tail of what is left after the last      *)
(* accepted frame.                                                         *)
(***************************************************************************)
C14_BacklogDrained ==
  LatestPass(last) =>
    /\ \A k \in 0..(Len(_buf) - 19) : ~ValidFrame(SubSeq(_buf, k + 1, k + 19))
    /\ \A i \in Hits(last, "ok") :
         /\ i < Len(last.trace)
         /\ last.trace[i + 1].base = last.trace[i].at + 19
         /\ last.trace[i + 1].from = last.trace[i + 1].base
    /\ \E p \in last.trace[Len(last.trace)].base..Len(last.scanned) :
         _buf = Rest(last, p)

\* two frames accepted in one pass, bytes left over after the second
C14_Witness ==
  /\ LatestPass(last)
  /\ Cardinality(Hits(last, "ok")) = 2
  /\ Hits(last, "crc") \cup Hits(last, "tail") # {}
  /\ _buf # <<>>

(***************************************************************************)
(* Helpers for two successive passes of dm_serial.                         *)
(***************************************************************************)
\* the last two calls were decode passes of dm_serial on an open port
TwoPasses == LatestPass(prev) /\ LatestPass(last)

\* the bytes the two passes were fed, after what the buffer held before them
Stream == prev.scanned \o last.fed

\* offsets of the stream where a whole valid frame starts
ValidIn(b) == {k \in 0..(Len(b) - 19) : ValidFrame(SubSeq(b, k + 1, k + 19))}

(***************************************************************************)
(* C15.  Two successive read() passes of dm_serial, whatever the split of  *)
(* the bytes between their feeds, decode in order the frames that a single *)
(* pass over all the bytes decodes, and add the same number to cnt_ok;     *)
(* that number is the number of valid frames of the stream, so that each   *)
(* is decoded once, none twice and none lost.                              *)
(***************************************************************************)
C15_SplitFeedsSameFrames ==
  TwoPasses =>
    LET whole == parse_all(Stream) IN
    /\ prev.results \o last.results = whole.results
    /\ cnt_ok = prev.cnt0.ok + Len(whole.results)
    /\ Len(prev.results) + Len(last.results) = Cardinality(ValidIn(Stream))

\* the first feed ends inside a frame, the second pass decodes two frames
C15_Witness ==
  /\ TwoPasses
  /\ prev.fed # <<>>
  /\ prev.results = <<>>
  /\ Hits(prev, "short") # {}
  /\ Len(last.fed) > 19
  /\ Len(last.results) = 2
  /\ cnt_ok = 2

(***************************************************************************)
(* C16 as claimed.  A read() pass of dm_serial that is fed no new byte     *)
(* does not increase cnt_crc: a candidate rejected for its checksum is not *)
(* kept in the buffer and counted again.                                   *)
(***************************************************************************)
C16_CrcCountedOnce ==
  (LatestPass(last) /\ last.fed = <<>>) => cnt_crc = last.cnt0.crc

(***************************************************************************)
(* Helpers for the comparison of the two readers on the same bytes.        *)
(***************************************************************************)
\* offsets where a whole candidate passes the trailer and identifier checks
WellFormedIn(b) ==
  {k \in 0..(Len(b) - 19) : WellFormed(SubSeq(b, k + 1, k + 19))}

\* the first such candidate of a buffer that has one
FirstWellFormed(b) ==
  LET k == Least(WellFormedIn(b)) IN SubSeq(b, k + 1, k + 19)

(***************************************************************************)
(* C17 as claimed.  On the bytes a pass scanned, read() of imu_recive      *)
(* returns a sample exactly when a pass of _parse_all of dm_serial over    *)
(* the same bytes accepts a frame, and returns the first frame it accepts. *)
(***************************************************************************)
C17_SameValidation ==
  AnyPass(last) =>
    LET o == read_one(last.scanned)
        p == parse_all(last.scanned)
    IN  /\ (o.why = "ok") <=> (p.results # <<>>)
        /\ o.why = "ok" => o.parsed = p.results[1]

(***************************************************************************)
(* C17.  read() of imu_recive applies the trailer and identifier checks of *)
(* _parse_all but the checksum window [0,16) only, and stops at the first  *)
(* checksum failure: it returns a sample exactly when the first candidate  *)
(* that passes the trailer and identifier checks matches over [0,16), and  *)
(* that sample is the first frame a pass of _parse_all over the same bytes *)
(* accepts; a first candidate that matches over [2,16) only is accepted by *)
(* _parse_all and ends read() with 'crc'.                                  *)
(***************************************************************************)
C17_SameChecksOneWindow ==
  AnyPass(last) =>
    LET b == last.scanned
        o == read_one(b)
        p == parse_all(b)
    IN  /\ (o.why = "ok") <=>
             (WellFormedIn(b) # {} /\ CrcIncl(FirstWellFormed(b)))
        /\ o.why = "ok" =>
             /\ p.results # <<>>
             /\ o.parsed = p.results[1]
             /\ o.parsed = SampleOf(FirstWellFormed(b))
        /\ (WellFormedIn(b) # {} /\ ~CrcIncl(FirstWellFormed(b))) =>
             /\ o.why = "crc"
             /\ o.parsed = None
             /\ CrcExcl(FirstWellFormed(b)) =>
                  /\ p.results # <<>>
                  /\ p.results[1] = SampleOf(FirstWellFormed(b))
        /\ WellFormedIn(b) = {} =>
             /\ o.why \in {"nohdr", "short"}
             /\ p.results = <<>>

\* read() of imu_recive ends with 'crc' on a frame that _parse_all accepts
C17_Witness ==
  /\ OnePass(last)
  /\ last.why = "crc"
  /\ WellFormedIn(last.scanned) # {}
  /\ CrcExcl(FirstWellFormed(last.scanned))
  /\ parse_all(last.scanned).results
       = <<SampleOf(FirstWellFormed(last.scanned))>>

(***************************************************************************)
(* Helpers for read() of imu_recive after a checksum failure.              *)
(***************************************************************************)
\* the offset of the candidate that ended the call
EndAt(c) == c.trace[Len(c.trace)].at

\* the call ended with 'crc'
CrcReject(c) == OnePass(c) /\ c.why = "crc"

(***************************************************************************)
(* C18.  When read() of imu_recive rejects the candidate at offset j for   *)
(* its checksum it returns 'crc' and no sample, and leaves the buffer      *)
(* equal to the scanned bytes from offset j+1 on; the next read() starts   *)
(* from that buffer, and when a valid frame starts after j it either       *)
(* returns the first such frame, also one that overlaps the rejected       *)
(* candidate, or ends with 'crc' at a candidate before that frame and      *)
(* keeps the frame in the buffer.                                          *)
(***************************************************************************)
C18_CrcRejectKeepsRest ==
  /\ CrcReject(last) =>
       /\ last.ret = None
       /\ buf = Rest(last, EndAt(last) + 1)
  /\ (CrcReject(prev) /\ OnePass(last)) =>
       LET j == EndAt(prev)
           V == ValidAfter(prev, j)
       IN  /\ last.buf0 = Rest(prev, j + 1)
           /\ last.scanned = Rest(prev, j + 1) \o last.fed
           /\ V # {} =>
                LET k == Least(V) - (j + 1) IN
                \/ /\ last.why = "ok"
                   /\ EndAt(last) = k
                   /\ last.ret = SampleOf(Window(prev, Least(V)))
                   /\ buf = Rest(last, k + 19)
                \/ /\ last.why = "crc"
                   /\ EndAt(last) < k
                   /\ buf = Rest(last, EndAt(last) + 1)

\* 'crc' at offset j, then the frame that overlaps the rejected candidate
C18_Witness ==
  /\ CrcReject(prev)
  /\ OnePass(last)
  /\ last.why = "ok"
  /\ ValidAfter(prev, EndAt(prev)) # {}
  /\ Least(ValidAfter(prev, EndAt(prev))) < EndAt(prev) + 19
  /\ last.ret = SampleOf(Window(prev, Least(ValidAfter(prev, EndAt(prev)))))

(***************************************************************************)
(* Helpers for the steps of the scan loops.                                *)
(***************************************************************************)
\* the loop went from s to t by dropping bytes from the front of the buffer
Shortened(s, t) == Len(t.buf) < Len(s.buf)

\* the loop went from s to t by moving the cursor forward in the same buffer
Advanced(s, t) == t.buf = s.buf /\ t.start > s.start /\ t.start <= Len(t.buf)

(***************************************************************************)
(* C19.  Each iteration of the scan loop of _parse_all and of read() of    *)
(* imu_recive stops the pass, strictly advances the cursor within the      *)
(* buffer or strictly shortens the buffer; a task inside a loop can always *)
(* take its next iteration, and the iterations taken never outnumber the   *)
(* bytes the cursor has passed or the pass has dropped.                    *)
(***************************************************************************)
C19_LoopTerminates ==
  /\ [][(th.pc = "loop" /\ th'.iters # th.iters) =>
          \/ th'.ls.done
          \/ Advanced(th.ls, th'.ls)
          \/ Shortened(th.ls, th'.ls)]_vars
  /\ [](th.pc = "loop" => (~th.ls.done /\ th.iters < MaxIters))
  /\ [](th.pc = "loop" =>
          /\ th.iters <= th.ls.base + th.ls.start
          /\ th.ls.start <= Len(th.ls.buf))

\* a loop that has accepted a frame, has rejected a candidate and goes on
C19_Witness ==
  /\ th.pc = "loop"
  /\ th.iters >= 2
  /\ th.ls.base > 0
  /\ th.ls.start > 0
  /\ ~th.ls.done

(***************************************************************************)
(* C20 as claimed.  With destory() running in the foreground while the     *)
(* reader task is inside read(), the pass ends by returning a sample or    *)
(* None: no step of read() uses a handle that is closed or None.           *)
(***************************************************************************)
C20_PassEndsNormally == th.pc # "raised"

====
